---- MODULE Spec2Model ----
(***************************************************************************)
(* Model of fetch_courses.py: the row parser (parse_table), the label      *)
(* scoped text extractor (_extract_detail_text) and the extraction merger  *)
(* (crawl_program) with its category classifiers and table locator.        *)
(*                                                                         *)
(* Text is modelled as a sequence of one-character strings, so that        *)
(* strip(), split(), replace() and ''.join() are computed as Python        *)
(* computes them.  A text that the code only tests for the presence of a   *)
(* marker (an anchor name, an area code, a header cell, the raw markup of  *)
(* a cell) is a sequence of fragments, and "x in s" is "some fragment of   *)
(* s is x".                                                                *)
(***************************************************************************)
EXTENDS Integers, Sequences, FiniteSets, TLC

VARIABLES
    \* ---- parse_table(table, category), one loop iteration per step
    pt_pc,        \* "begin" | "loop" | "done"
    pt_table,     \* the table argument: its <tr> elements in document order
    pt_category,  \* the category argument
    pt_header,    \* local `header`
    pt_i,         \* index (1-based) of the next <tr> the loop visits
    pt_rows,      \* local `rows`
    \* ---- _extract_detail_text(soup, label), one loop iteration per step
    ex_pc,        \* "find" | "scan" | "done"
    ex_page,      \* the children of the element holding the label spans
    ex_label,     \* the label argument
    ex_span,      \* position of local `span` in ex_page, 0 when not found
    ex_k,         \* position of the next sibling the loop visits
    ex_started,   \* local `started`
    ex_parts,     \* local `parts`
    ex_result,    \* the returned text
    \* ---- crawl_program(code, term), after the program page has been parsed
    pc,           \* "anchor" | "links" | "fallback" | "details" | "done" | "raised"
    page_links,   \* the hrefs of the list links of the page, in document order
    n_anchors,    \* how many named anchors the first loop has visited
    a,            \* loop variable `a` while the zone reads it, NoAnchor afterwards
    el_type,      \* local `el_type`
    links,        \* local `links` of the zone
    li,           \* position in links of the next expand link
    fi,           \* position in page_links of the next fallback link
    di,           \* position in results of the next row of the details loop
    results,      \* local `results`
    seen_courses, \* local `seen_courses`
    \* ---- history of the run
    origin,       \* origin[k]: the pass that produced results[k]
    first_found,  \* identity -> [row, pass]: the first row parsed with the identity
    in_tables,    \* [id, el]: the identities parsed from the zones' located tables
    call          \* the last crawl_list call: [href, category, pass]

pt_vars == <<pt_pc, pt_table, pt_category, pt_header, pt_i, pt_rows>>
ex_vars == <<ex_pc, ex_page, ex_label, ex_span, ex_k, ex_started, ex_parts, ex_result>>

cp_vars == <<pc, page_links, n_anchors, a, el_type, links, li, fi, di,
             results, seen_courses, origin, first_found, in_tables, call>>

vars == <<pt_vars, ex_vars, cp_vars>>

\* the frames a function does not touch
pt_others == <<ex_vars, cp_vars>>
ex_others == <<pt_vars, cp_vars>>
cp_others == <<pt_vars, ex_vars>>

-----------------------------------------------------------------------------
(* Text primitives *)

NBSP == "U+00A0"

MinCells == 5

\* the characters Python's str.strip() and str.split() treat as whitespace
Whitespace == {" ", "\t", "\n", NBSP}

SetMin(S) == CHOOSE x \in S : \A y \in S : x <= y
SetMax(S) == CHOOSE x \in S : \A y \in S : x >= y

\* str.strip()
Strip(s) ==
    LET keep == {i \in DOMAIN s : s[i] \notin Whitespace}
    IN  IF keep = {} THEN <<>> ELSE SubSeq(s, SetMin(keep), SetMax(keep))

\* str.replace('\xa0', ' ')
ReplaceNbsp(s) == [i \in DOMAIN s |-> IF s[i] = NBSP THEN " " ELSE s[i]]

\* length of the longest prefix of s without whitespace
WordLen(s) ==
    LET stops == {i \in DOMAIN s : s[i] \in Whitespace}
    IN  IF stops = {} THEN Len(s) ELSE SetMin(stops) - 1

\* str.split(): the maximal runs of non-whitespace characters
RECURSIVE Split(_)
Split(s) ==
    IF s = <<>> THEN <<>>
    ELSE IF s[1] \in Whitespace THEN Split(Tail(s))
    ELSE <<SubSeq(s, 1, WordLen(s))>> \o Split(SubSeq(s, WordLen(s) + 1, Len(s)))

\* ''.join(parts)
RECURSIVE Concat(_)
Concat(parts) ==
    IF parts = <<>> THEN <<>> ELSE Head(parts) \o Concat(Tail(parts))

\* all sequences over S of length at most n
RECURSIVE SeqsUpTo(_, _)
SeqsUpTo(S, n) ==
    IF n = 0 THEN {<<>>}
    ELSE LET shorter == SeqsUpTo(S, n - 1)
         IN  shorter \cup {Append(q, x) : q \in shorter, x \in S}

\* "frag in s" for a text kept as a sequence of fragments
Contains(s, frag) == \E i \in DOMAIN s : s[i] = frag

-----------------------------------------------------------------------------
(* Faculty registry *)

\* FACULTY_COURSES['FENS']
FENS_COURSES ==
    { <<"C","S","2","0","1">>, <<"C","S","2","0","4">>,
      <<"D","S","A","2","1","0">>, <<"E","E","2","0","0">>,
      <<"E","E","2","0","2">>, <<"E","N","S","2","0","1">>,
      <<"E","N","S","2","0","2">>, <<"E","N","S","2","0","3">>,
      <<"E","N","S","2","0","4">>, <<"E","N","S","2","0","5">>,
      <<"E","N","S","2","0","6">>, <<"E","N","S","2","0","7">>,
      <<"E","N","S","2","0","8">>, <<"E","N","S","2","0","9">>,
      <<"E","N","S","2","1","0">>, <<"E","N","S","2","1","1">>,
      <<"E","N","S","2","1","4">>, <<"E","N","S","2","1","6">>,
      <<"M","A","T","2","0","4">>, <<"M","A","T","H","2","0","1">>,
      <<"M","A","T","H","2","0","2">>, <<"M","A","T","H","2","0","3">>,
      <<"M","A","T","H","2","0","4">>, <<"N","S","2","0","1">>,
      <<"N","S","2","0","7">>, <<"N","S","2","1","3">>,
      <<"N","S","2","1","4">>, <<"N","S","2","1","6">>,
      <<"N","S","2","1","8">>, <<"P","H","Y","S","2","1","1">> }

\* FACULTY_COURSES['FASS']
FASS_COURSES ==
    { <<"A","N","T","H","2","5","5">>, <<"A","N","T","H","3","2","6">>,
      <<"C","U","L","T","3","6","8">>, <<"G","E","N","3","4","1">>,
      <<"L","I","T","2","1","2">>, <<"L","I","T","3","5","9">>,
      <<"P","H","I","L","2","0","2">>, <<"P","H","I","L","3","2","1">>,
      <<"V","A","3","1","5">>, <<"E","C","O","N","2","0","1">>,
      <<"E","C","O","N","2","0","2">>, <<"E","C","O","N","2","0","4">>,
      <<"H","A","R","T","2","9","2">>, <<"H","A","R","T","3","1","1">>,
      <<"H","I","S","T","2","0","5">>, <<"H","I","S","T","3","4","9">>,
      <<"P","S","Y","2","0","1">>, <<"P","S","Y","3","1","0">>,
      <<"P","S","Y","3","4","0">>, <<"I","R","2","0","1">>,
      <<"I","R","3","0","1">>, <<"I","R","3","9","1">>,
      <<"I","R","3","9","4">>, <<"P","O","L","S","2","5","0">>,
      <<"P","O","L","S","3","0","1">>, <<"S","O","C","2","0","1">>,
      <<"S","O","C","3","0","1">>, <<"H","A","R","T","2","1","3">>,
      <<"H","A","R","T","2","9","3">>, <<"V","A","2","0","1">>,
      <<"V","A","2","0","3">>, <<"V","A","3","1","2">> }

\* FACULTY_COURSES['SBS']
SBS_COURSES ==
    { <<"A","C","C","2","0","1">>, <<"F","I","N","3","0","1">>,
      <<"M","G","M","T","4","0","2">>, <<"M","K","T","G","3","0","1">>,
      <<"O","P","I","M","3","0","2">>, <<"O","R","G","3","0","1">>,
      <<"O","R","G","3","0","2">> }

None == "None"

\* get_faculty_for_course: the dict is searched in insertion order
get_faculty_for_course(major, code) ==
    LET course_code == major \o code
    IN  IF course_code \in FENS_COURSES THEN "FENS"
        ELSE IF course_code \in FASS_COURSES THEN "FASS"
        ELSE IF course_code \in SBS_COURSES THEN "SBS"
        ELSE None

-----------------------------------------------------------------------------
(* Row parser *)

Category == {"university", "required", "core", "area", "free",
             "extra_attribute", "unknown"}

\* A <tr> is [th: the texts of its <th> cells, td: the raw texts of its <td>
\* cells, html0: the raw markup inside its first <td>, as fragments].
StarNbsp  == "<center>&nbsp;*&nbsp;</center>"
StarSpace == "<center> * </center>"

\* td.get_text(strip=True) of every <td>
CellTexts(tr) == [k \in DOMAIN tr.td |-> Strip(tr.td[k])]

\* faulty variant: the cell-count test off by one
RowAccepted_OffByOne(tr) ==
    LET tds == [k \in DOMAIN tr.td |-> Strip(tr.td[k])]
    IN  Len(tds) > MinCells /\ tds[2] # <<>>

\* line 167: the row yields a record
RowAccepted(tr) ==
    LET tds == CellTexts(tr) IN Len(tds) >= MinCells /\ tds[2] # <<>>

\* lines 174-177
HasAsterisk(tr) ==
    /\ Len(tr.td) > 0
    /\ (Contains(tr.html0, StarNbsp) \/ Contains(tr.html0, StarSpace))

\* faulty variant: a marked faculty course becomes core in every overridable zone
RowElType_AlwaysCore(has_asterisk, faculty_course, category) ==
    IF has_asterisk /\ faculty_course # "No" /\ category \in {"required", "area", "free"}
    THEN "core" ELSE category

\* lines 185-193
RowElType(has_asterisk, faculty_course, category) ==
    IF has_asterisk /\ faculty_course # "No" /\ category = "required" THEN "core"
    ELSE IF has_asterisk /\ faculty_course # "No" /\ category = "area" THEN "area"
    ELSE IF has_asterisk /\ faculty_course # "No" /\ category = "free" THEN "free"
    ELSE category

\* lines 168-205: the record of an accepted row
RowRecord(tr, category) ==
    LET tds    == CellTexts(tr)
        code   == ReplaceNbsp(tds[2])
        parts  == Split(code)
        major  == parts[1]
        number == IF Len(parts) > 1 THEN Concat(Tail(parts)) ELSE <<>>
        owner  == get_faculty_for_course(major, number)
        faculty_course == IF owner = None THEN "No" ELSE owner
    IN  [ Major          |-> major,
          Code           |-> number,
          Course_Name    |-> tds[3],
          ECTS           |-> tds[4],
          Engineering    |-> 0,
          Basic_Science  |-> 0,
          SU_credit      |-> tds[5],
          Faculty        |-> IF Len(tds) > 5 THEN tds[6] ELSE <<>>,
          EL_Type        |-> RowElType(HasAsterisk(tr), faculty_course, category),
          Faculty_Course |-> faculty_course ]

\* line 164
HasHeader(table) == Len(table[1].th) > 0

\* parse_table as one call (used by the merger)
RECURSIVE ParseRows(_, _, _)
ParseRows(table, i, category) ==
    IF i > Len(table) THEN <<>>
    ELSE (IF RowAccepted(table[i]) THEN <<RowRecord(table[i], category)>> ELSE <<>>)
         \o ParseRows(table, i + 1, category)

parse_table(table, category) ==
    IF table = <<>> THEN <<>>
    ELSE ParseRows(table, IF HasHeader(table) THEN 2 ELSE 1, category)

-----------------------------------------------------------------------------
(* Input pools of the row parser *)

MaxRows == 2

HeaderCells == << <<"">>, <<"Course">>, <<"Name">>, <<"ECTS">>, <<"SU Credits">>, <<"Faculty">> >>

NoMark   == <<"<td>", "</td>">>
BareStar == <<"<td>", "<center>*</center>", "</td>">>
NbspStar == <<"<td>", StarNbsp, "</td>">>
SpaceStar == <<"<td>", StarSpace, "</td>">>

Id_CS201   == <<"C","S"," ","2","0","1">>
Id_IF100   == <<"I","F"," ","1","0","0">>
Id_CS2_01  == <<"C","S","2"," ","0","1">>
Id_Joined  == <<"C","S","2","0","1">>
Id_Padded  == <<" ","C","S",NBSP,"2"," ","0","1","\n">>
Id_Blank   == <<" ",NBSP>>
Id_Empty   == <<>>

IdCells == {Id_CS201, Id_IF100, Id_CS2_01, Id_Joined, Id_Padded, Id_Blank, Id_Empty}

\* a <tr> with the <th> cells th and its first n <td> cells
MkTr(th, n, id, html0) ==
    [ th    |-> th,
      td    |-> SubSeq(<< <<>>, id, <<"N">>, <<" ","6">>, <<"4">>, <<"F">> >>, 1, n),
      html0 |-> html0 ]

TrPool ==
    {MkTr(<<>>, 5, id, h) : id \in {Id_CS201, Id_IF100}, h \in {NoMark, BareStar, NbspStar, SpaceStar}}
    \cup {MkTr(<<>>, 6, id, NoMark) : id \in IdCells}
    \cup {MkTr(<<>>, 4, Id_CS201, NbspStar), MkTr(<<>>, 1, Id_CS201, NoMark)}
    \cup {MkTr(HeaderCells, 0, Id_Empty, NoMark), MkTr(<< <<"x">> >>, 5, Id_CS201, SpaceStar)}

Tables == SeqsUpTo(TrPool, MaxRows)

-----------------------------------------------------------------------------
(* parse_table, one loop iteration per step *)

PT_Init ==
    /\ pt_pc = "begin"
    /\ pt_table \in Tables
    /\ pt_category \in Category
    /\ pt_header = FALSE
    /\ pt_i = 0
    /\ pt_rows = <<>>

\* lines 160-165
PT_Begin ==
    /\ pt_pc = "begin"
    /\ IF pt_table = <<>>
       THEN /\ pt_pc' = "done"
            /\ UNCHANGED <<pt_header, pt_i>>
       ELSE /\ pt_pc' = "loop"
            /\ pt_header' = HasHeader(pt_table)
            /\ pt_i' = IF HasHeader(pt_table) THEN 2 ELSE 1
    /\ UNCHANGED <<pt_table, pt_category, pt_rows>>
    /\ UNCHANGED pt_others

\* lines 165-205: one iteration of the loop over the rows
PT_Row ==
    /\ pt_pc = "loop"
    /\ pt_i <= Len(pt_table)
    /\ pt_rows' = IF RowAccepted(pt_table[pt_i])
                  THEN Append(pt_rows, RowRecord(pt_table[pt_i], pt_category))
                  ELSE pt_rows
    /\ pt_i' = pt_i + 1
    /\ UNCHANGED <<pt_pc, pt_table, pt_category, pt_header>>
    /\ UNCHANGED pt_others

\* line 206
PT_Return ==
    /\ pt_pc = "loop"
    /\ pt_i > Len(pt_table)
    /\ pt_pc' = "done"
    /\ UNCHANGED <<pt_table, pt_category, pt_header, pt_i, pt_rows>>
    /\ UNCHANGED pt_others


-----------------------------------------------------------------------------
(* Label scoped text extractor *)

\* A node of the detail page is [kind: "br" | "text" | "elem", name, strings]:
\* a text node has one string, an element the strings of its descendants in
\* document order.  The page is the list of the children of the element that
\* holds the label spans.
Br          == [kind |-> "br",   name |-> "br", strings |-> <<>>]
Text(s)     == [kind |-> "text", name |-> None, strings |-> <<s>>]
Elem(n, ss) == [kind |-> "elem", name |-> n,    strings |-> ss]

\* tag.string is the only string of the element, and None when it has several
\* or none: "s and label in s"
StringContains(node, label) ==
    Len(node.strings) = 1 /\ Contains(node.strings[1], label)

\* ' '.join(p for p in parts if p)
RECURSIVE JoinSpace(_)
JoinSpace(parts) ==
    IF parts = <<>> THEN <<>>
    ELSE IF Head(parts) = <<>> THEN JoinSpace(Tail(parts))
    ELSE LET rest == JoinSpace(Tail(parts))
         IN  IF rest = <<>> THEN Head(parts) ELSE Head(parts) \o <<" ">> \o rest

\* tag.get_text(' ', strip=True)
GetTextSpaced(node) ==
    JoinSpace([k \in DOMAIN node.strings |-> Strip(node.strings[k])])

\* line 53: position of the first span whose string contains the label, 0 if none
FindSpan(page, label) ==
    LET hits == {i \in DOMAIN page :
                    /\ page[i].kind = "elem" /\ page[i].name = "span"
                    /\ StringContains(page[i], label)}
    IN  IF hits = {} THEN 0 ELSE SetMin(hits)

\* faulty variant: the scan never ends at a line break
EndsScan_Never(sib, started) == FALSE

\* lines 59-61: the second line break ends the scan
EndsScan(sib, started) == sib.name = "br" /\ started

\* faulty variant: element siblings contribute nothing
Contribution_TextOnly(sib) ==
    IF sib.kind = "text" THEN Strip(sib.strings[1]) ELSE <<>>

\* lines 64-67: what a sibling that is no line break appends to parts
Contribution(sib) ==
    IF sib.kind = "text" THEN Strip(sib.strings[1]) ELSE GetTextSpaced(sib)

\* line 68
DetailResult(parts) == Strip(JoinSpace(parts))

\* _extract_detail_text as one call (used by get_course_details)
RECURSIVE ScanSiblings(_, _, _, _)
ScanSiblings(page, k, started, parts) ==
    IF k > Len(page) THEN parts
    ELSE IF EndsScan(page[k], started) THEN parts
    ELSE IF page[k].name = "br" THEN ScanSiblings(page, k + 1, TRUE, parts)
    ELSE ScanSiblings(page, k + 1, started, Append(parts, Contribution(page[k])))

extract_detail_text(page, label) ==
    IF FindSpan(page, label) = 0 THEN <<>>
    ELSE DetailResult(ScanSiblings(page, FindSpan(page, label) + 1, FALSE, <<>>))

-----------------------------------------------------------------------------
(* Input pools of the extractor *)

MaxNodes == 6

Labels == {"Prerequisites", "Corequisites"}

NodePool ==
    { Br,
      Text(<<" ", "b", "\n">>),
      Text(<<" ">>),
      Elem("span", << <<"Prerequisites", ":">> >>),
      Elem("b", << <<" ", "c", " ">>, <<NBSP>>, <<"d">> >>) }

Pages == SeqsUpTo(NodePool, MaxNodes)

-----------------------------------------------------------------------------
(* _extract_detail_text, one loop iteration per step *)

EX_Init ==
    /\ ex_pc = "find"
    /\ ex_page \in Pages
    /\ ex_label \in Labels
    /\ ex_span = 0
    /\ ex_k = 0
    /\ ex_started = FALSE
    /\ ex_parts = <<>>
    /\ ex_result = <<>>

\* lines 53-57
EX_Find ==
    /\ ex_pc = "find"
    /\ ex_span' = FindSpan(ex_page, ex_label)
    /\ IF FindSpan(ex_page, ex_label) = 0
       THEN /\ ex_pc' = "done"
            /\ ex_result' = <<>>
            /\ UNCHANGED ex_k
       ELSE /\ ex_pc' = "scan"
            /\ ex_k' = FindSpan(ex_page, ex_label) + 1
            /\ UNCHANGED ex_result
    /\ UNCHANGED <<ex_page, ex_label, ex_started, ex_parts>>
    /\ UNCHANGED ex_others

\* lines 58-67: one iteration of the loop over span.next_siblings
EX_Sibling ==
    /\ ex_pc = "scan"
    /\ ex_k <= Len(ex_page)
    /\ ~EndsScan(ex_page[ex_k], ex_started)
    /\ ex_k' = ex_k + 1
    /\ IF ex_page[ex_k].name = "br"
       THEN ex_started' = TRUE /\ UNCHANGED ex_parts
       ELSE ex_parts' = Append(ex_parts, Contribution(ex_page[ex_k])) /\ UNCHANGED ex_started
    /\ UNCHANGED <<ex_pc, ex_page, ex_label, ex_span, ex_result>>
    /\ UNCHANGED ex_others

\* lines 60-61 and 68: the loop ends (break, or no sibling left) and the result is built
EX_Return ==
    /\ ex_pc = "scan"
    /\ IF ex_k > Len(ex_page) THEN TRUE ELSE EndsScan(ex_page[ex_k], ex_started)
    /\ ex_pc' = "done"
    /\ ex_result' = DetailResult(ex_parts)
    /\ UNCHANGED <<ex_page, ex_label, ex_span, ex_k, ex_started, ex_parts>>
    /\ UNCHANGED ex_others



-----------------------------------------------------------------------------
(* Category classifiers *)

\* An anchor name, a link target and a heading are sequences of fragments.
EndsWith(s, frag)   == s # <<>> /\ s[Len(s)] = frag
StartsWith(s, frag) == s # <<>> /\ s[1] = frag

\* lines 143-157: the heading as the fragments of its lower-cased text
map_category(title) ==
    LET t == title
    IN  IF Contains(t, "university") /\ Contains(t, "courses") THEN "university"
        ELSE IF Contains(t, "required") /\ Contains(t, "courses") THEN "required"
        ELSE IF Contains(t, "core") /\ Contains(t, "elective") THEN "core"
        ELSE IF Contains(t, "area") /\ Contains(t, "elective") THEN "area"
        ELSE IF Contains(t, "free") /\ Contains(t, "elective") THEN "free"
        ELSE IF t = <<"total">> THEN "university"
        ELSE "unknown"

\* lines 230-232: the anchor opens a zone
IsZoneAnchor(name_attr) ==
    \/ EndsWith(name_attr, "_CEL") \/ EndsWith(name_attr, "_REQ")
    \/ EndsWith(name_attr, "_AEL") \/ EndsWith(name_attr, "_ARE")
    \/ StartsWith(name_attr, "main")

\* lines 243-258; ('_CE2' or '_PHL') evaluates to '_CE2'
ZoneCategory(name_attr, category_title) ==
    IF \/ EndsWith(name_attr, "_CEL") \/ Contains(name_attr, "_COR")
       \/ Contains(name_attr, "_CE1") \/ Contains(name_attr, "_C1") THEN "core"
    ELSE IF \/ EndsWith(name_attr, "_CE2") \/ EndsWith(name_attr, "_C2")
            \/ Contains(name_attr, "_MEL") THEN "extra_attribute"
    ELSE IF EndsWith(name_attr, "_REQ") THEN "required"
    ELSE IF EndsWith(name_attr, "_AEL") \/ EndsWith(name_attr, "_ARE") THEN "area"
    ELSE IF EndsWith(name_attr, "_FEL") \/ EndsWith(name_attr, "_FRE") THEN "free"
    ELSE IF name_attr = <<"UC_", "FENS">> \/ name_attr = <<"UC_", "FASS">> THEN "university"
    ELSE map_category(category_title)

\* lines 357-359 and 388-390: re.search(r'P_AREA=([^&]+)', href), None without a match
RECURSIVE UpToAmp(_)
UpToAmp(s) ==
    IF s = <<>> THEN <<>>
    ELSE IF Head(s) = "&" THEN <<>>
    ELSE <<Head(s)>> \o UpToAmp(Tail(s))

\* <<>> stands for "no match": a matched area code is never empty
RECURSIVE AreaCode(_)
AreaCode(href) ==
    IF href = <<>> THEN <<>>
    ELSE IF Head(href) = "P_AREA=" /\ UpToAmp(Tail(href)) # <<>> THEN UpToAmp(Tail(href))
    ELSE AreaCode(Tail(href))

HasArea(href) == AreaCode(href) # <<>>

\* lines 361-376: the expand-link pass
ExpandLinkCategory(area_code) ==
    IF \/ Contains(area_code, "_CEL") \/ Contains(area_code, "_COR")
       \/ Contains(area_code, "_CE1") \/ Contains(area_code, "_C1") THEN "core"
    ELSE IF \/ Contains(area_code, "_CE2") \/ Contains(area_code, "_PHL")
            \/ Contains(area_code, "_MEL") \/ Contains(area_code, "_C2") THEN "extra_attribute"
    ELSE IF Contains(area_code, "_REQ") THEN "required"
    ELSE IF Contains(area_code, "_AEL") \/ Contains(area_code, "_ARE") THEN "area"
    ELSE IF Contains(area_code, "_FEL") \/ Contains(area_code, "_FRE") THEN "free"
    ELSE IF Contains(area_code, "UC_") THEN "university"
    ELSE IF Contains(area_code, "_PHL") \/ Contains(area_code, "_MEL") THEN "required"
    ELSE "unknown"

\* lines 392-406: the fallback sweep
FallbackLinkCategory(area_code) ==
    IF \/ Contains(area_code, "_CEL") \/ Contains(area_code, "_COR")
       \/ Contains(area_code, "_CE1") \/ Contains(area_code, "_CE2")
       \/ Contains(area_code, "_C1") \/ Contains(area_code, "_C2") THEN "core"
    ELSE IF Contains(area_code, "_REQ") THEN "required"
    ELSE IF Contains(area_code, "_AEL") \/ Contains(area_code, "_ARE") THEN "area"
    ELSE IF Contains(area_code, "_FEL") \/ Contains(area_code, "_FRE") THEN "free"
    ELSE IF Contains(area_code, "UC_") THEN "university"
    ELSE IF Contains(area_code, "_PHL") \/ Contains(area_code, "_MEL") THEN "required"
    ELSE "unknown"

-----------------------------------------------------------------------------
(* Table locator *)

\* An optional value is Nothing or Just(x).
Nothing == <<>>
Just(x) == <<x>>

\* A node of the program page is [name, rows, nested]: a <table> carries its
\* <tr> rows, a <tr> beside the enclosing table may nest a table (an optional
\* list of rows), any other element carries nothing.
TableNode(rows) == [name |-> "table", rows |-> rows, nested |-> Nothing]
TrNode(nested)  == [name |-> "tr", rows |-> <<>>, nested |-> nested]
OtherNode       == [name |-> "p", rows |-> <<>>, nested |-> Nothing]

ProximityHorizon == 10
TableHorizon == 20
LinkHorizon == 15

Upper == {"A","B","C","D","E","F","G","H","I","J","K","L","M",
          "N","O","P","Q","R","S","T","U","V","W","X","Y","Z"}
Digit == {"0","1","2","3","4","5","6","7","8","9"}

\* table.find('th', string=...): a header cell mentions one of the words
MentionsAny(rows, words) ==
    \E i \in DOMAIN rows : \E k \in DOMAIN rows[i].th :
        \E w \in words : Contains(rows[i].th[k], w)

\* line 284: re.match(r'^[A-Z]+\s*\d+', course_text)
LooksLikeCourse(text) ==
    \E n \in 1..Len(text) : \E m \in 0..(Len(text) - n - 1) :
        /\ \A i \in 1..n : text[i] \in Upper
        /\ \A i \in (n + 1)..(n + m) : text[i] \in Whitespace
        /\ text[n + m + 1] \in Digit

\* lines 276-286: a row after the first one looks like a course row
HasCourseRow(rows) ==
    /\ Len(rows) > 1
    /\ \E i \in 2..Len(rows) :
          LET tds == rows[i].td
          IN  /\ Len(tds) >= MinCells
              /\ Strip(tds[2]) # <<>>
              /\ LooksLikeCourse(ReplaceNbsp(Strip(tds[2])))

\* lines 270-288: the table is accepted by the proximity scan
NearAccepts(node) ==
    /\ node.name = "table"
    /\ \/ MentionsAny(node.rows, {"Course", "Name", "ECTS", "SU Credits"})
       \/ HasCourseRow(node.rows)

\* lines 264-288: Method 1, over the elements that follow the anchor
LocateNear(following) ==
    LET hits == {i \in DOMAIN following : i <= ProximityHorizon /\ NearAccepts(following[i])}
    IN  IF hits = {} THEN Nothing ELSE Just(following[SetMin(hits)].rows)

\* lines 297-306: what a following sibling of the enclosing table offers
SiblingAccepts(node) ==
    IF node.name = "tr"
    THEN node.nested # Nothing /\ MentionsAny(node.nested[1], {"Course", "Name"})
    ELSE node.name = "table" /\ MentionsAny(node.rows, {"Course", "Name"})

\* lines 291-307: Method 2; parent_siblings is Nothing when no table encloses
\* the anchor, and else the following siblings of the enclosing table
LocateSibling(parent_siblings) ==
    IF parent_siblings = Nothing THEN Nothing
    ELSE LET sibs == parent_siblings[1]
             hits == {i \in DOMAIN sibs : SiblingAccepts(sibs[i])}
         IN  IF hits = {} THEN Nothing
             ELSE LET node == sibs[SetMin(hits)]
                  IN  IF node.name = "tr" THEN node.nested ELSE Just(node.rows)

\* lines 310-324: Method 3, over the first tables that follow the anchor
LocateFar(following) ==
    LET tables == SelectSeq(following, LAMBDA n : n.name = "table")
        hits   == {i \in DOMAIN tables :
                      /\ i <= TableHorizon
                      /\ MentionsAny(tables[i].rows, {"Course", "Name", "ECTS"})}
    IN  IF hits = {} THEN Nothing ELSE Just(tables[SetMin(hits)].rows)

\* faulty variant: a zone without a table is given the nearest table of the page
LocateTable_AnyTable(following, parent_siblings) ==
    LET tables == SelectSeq(following, LAMBDA n : n.name = "table")
    IN  IF tables = <<>> THEN Nothing ELSE Just(tables[1].rows)

\* lines 260-324: the three methods in order
LocateTable(following, parent_siblings) ==
    IF LocateNear(following) # Nothing THEN LocateNear(following)
    ELSE IF LocateSibling(parent_siblings) # Nothing THEN LocateSibling(parent_siblings)
    ELSE LocateFar(following)

-----------------------------------------------------------------------------
(* Extraction merger: helpers *)

\* lines 330, 380, 411
CourseId(row) == row.Major \o row.Code

\* faulty variant: the merge appends every row
Merge_NoDedup(state, new_rows) ==
    [results |-> state.results \o new_rows,
     seen    |-> state.seen \cup {CourseId(new_rows[k]) : k \in DOMAIN new_rows}]

\* faulty variant: a row of a known course replaces the record kept so far
Merge_LastWins(state, new_rows) ==
    LET RECURSIVE Go(_, _)
        Go(st, rows) ==
            IF rows = <<>> THEN st
            ELSE LET row == Head(rows)
                     old == {k \in DOMAIN st.results : CourseId(st.results[k]) = CourseId(row)}
                 IN  Go([results |-> IF old = {} THEN Append(st.results, row)
                                     ELSE [st.results EXCEPT ![SetMin(old)] = row],
                         seen    |-> st.seen \cup {CourseId(row)}], Tail(rows))
    IN  Go(state, new_rows)

\* lines 329-333, 379-383, 410-414: the merge loop over new_rows
RECURSIVE Merge(_, _)
Merge(state, new_rows) ==
    IF new_rows = <<>> THEN state
    ELSE LET row == Head(new_rows)
         IN  IF CourseId(row) \notin state.seen
             THEN Merge([results |-> Append(state.results, row),
                         seen    |-> state.seen \cup {CourseId(row)}], Tail(new_rows))
             ELSE Merge(state, Tail(new_rows))

\* A zone anchor is [name_attr, title, following, parent_table, sibling_links]:
\* following are the elements after the anchor in document order (tables, list
\* links and others); parent_table is Nothing, or Just [siblings, links], the
\* following siblings of the enclosing table and the list links inside it;
\* sibling_links are the list links in the following siblings of the anchor's
\* parent.
LinkNode(href) == [name |-> "a", rows |-> <<>>, nested |-> Nothing, href |-> href]

\* line 292 as Method 2 reads it
ParentSiblings(anchor) ==
    IF anchor.parent_table = Nothing THEN Nothing ELSE Just(anchor.parent_table[1].siblings)

\* lines 336-353: the expand links of a zone
ZoneLinks(anchor) ==
    LET in_table == IF anchor.parent_table = Nothing THEN <<>>
                    ELSE anchor.parent_table[1].links
        ahead    == SelectSeq(SubSeq(anchor.following, 1,
                                     IF Len(anchor.following) < LinkHorizon
                                     THEN Len(anchor.following) ELSE LinkHorizon),
                              LAMBDA n : n.name = "a")
    IN  IF in_table # <<>> THEN in_table
        ELSE anchor.sibling_links \o [k \in DOMAIN ahead |-> ahead[k].href]

\* lines 357-376: the category the rows of an expand link are parsed under
LinkElType(zone_type, href) ==
    IF HasArea(href) THEN ExpandLinkCategory(AreaCode(href)) ELSE zone_type

\* lines 209-214 after a successful fetch: the first table of the page, if any
crawl_list(page, category) ==
    IF page = Nothing THEN <<>> ELSE parse_table(page[1], category)

\* lines 418-420
WantsDetails(row) ==
    \/ row.EL_Type = "required"
    \/ row.EL_Type = "university"
    \/ (row.EL_Type \in {"core", "area"} /\ row.Major \in {<<"C","S">>, <<"D","S","A">>})

\* lines 71-119: fetched is [term, page], each Nothing after a failed request;
\* term is the text of the first cell under the "Last Offered Terms" header
get_course_details(fetched) ==
    [ Prerequisites     |-> IF fetched.page = Nothing THEN <<>>
                            ELSE extract_detail_text(fetched.page[1], "Prerequisites"),
      Corequisites      |-> IF fetched.page = Nothing THEN <<>>
                            ELSE extract_detail_text(fetched.page[1], "Corequisites"),
      Last_Offered_Term |-> IF fetched.term = Nothing THEN <<>> ELSE Strip(fetched.term[1]) ]

\* line 422: row.update(details)
Update(row, details) ==
    [f \in DOMAIN row \cup DOMAIN details |->
        IF f \in DOMAIN details THEN details[f] ELSE row[f]]

-----------------------------------------------------------------------------
(* Input pools of the merger *)

MaxAnchors == 2
MaxPageLinks == 2

HeaderRow == MkTr(HeaderCells, 0, Id_Empty, NoMark)
Row_CS201 == MkTr(<<>>, 6, Id_CS201, NbspStar)
Row_CS2_01 == MkTr(<<>>, 5, Id_CS2_01, NoMark)
Row_IF100 == MkTr(<<>>, 5, Id_IF100, NoMark)
Row_Short == MkTr(<<>>, 4, Id_IF100, NoMark)

Table_Headed == <<HeaderRow, Row_CS201>>
Table_Clash  == <<HeaderRow, Row_CS2_01, Row_CS201>>
Table_Plain  == <<Row_IF100, Row_CS201>>
Table_Junk   == <<Row_Short>>
Table_Credits == << MkTr(<< <<"SU Credits">> >>, 0, Id_Empty, NoMark), Row_Short >>

Pad(n) == [k \in 1..n |-> OtherNode]
JunkTables(n) == [k \in 1..n |-> TableNode(Table_Junk)]

ListLink(area) == <<"SU_DEGREE.", "p_list_courses", "?", "P_TERM=", "1", "&", "P_AREA=">> \o area \o <<"&", "P_LANG=", "EN">>

Href_NoArea == <<"SU_DEGREE.", "p_list_courses", "?", "P_TERM=", "1">>
Href_CE2    == ListLink(<<"BSCS", "_CE2">>)
Href_REQ    == ListLink(<<"BSCS", "_PHL", "_REQ">>)

Hrefs == {Href_NoArea, Href_CE2, Href_REQ}

PageLinkLists == SeqsUpTo(Hrefs, MaxPageLinks)

Heads ==
    { [name_attr |-> <<"BSCS", "_REQ">>, title |-> <<"required", "courses">>],
      [name_attr |-> <<"main", "1">>,    title |-> <<"university", "courses">>] }

OtherAnchors == { <<"top">>, <<"BSCS", "_FEL">> }

\* the last list link of the page, as a list
LastOf(L) == IF L = <<>> THEN <<>> ELSE <<L[Len(L)]>>
LinkNodes(L) == [k \in DOMAIN L |-> LinkNode(L[k])]

\* the surroundings of a zone anchor on a page whose list links are L
Surroundings(L) ==
    { \* a headed table right after the anchor, no link
      [following |-> <<TableNode(Table_Headed)>>,
       parent_table |-> Nothing, sibling_links |-> <<>>],
      \* a table without header cells as the 10th element, a link right after it
      [following |-> Pad(ProximityHorizon - 1) \o <<TableNode(Table_Plain)>> \o LinkNodes(LastOf(L)),
       parent_table |-> Nothing, sibling_links |-> <<>>],
      \* the same table as the 11th element, a link as the 16th
      [following |-> Pad(ProximityHorizon) \o <<TableNode(Table_Plain)>>
                       \o Pad(LinkHorizon - ProximityHorizon - 1) \o LinkNodes(LastOf(L)),
       parent_table |-> Nothing, sibling_links |-> <<>>],
      \* a headed table as the 11th element; the enclosing table holds every link
      [following |-> Pad(ProximityHorizon) \o <<TableNode(Table_Clash)>>,
       parent_table |-> Just([siblings |-> <<OtherNode>>, links |-> L]),
       sibling_links |-> <<>>],
      \* a headed table nested beside the enclosing table, which holds no link
      [following |-> <<>>,
       parent_table |-> Just([siblings |-> <<OtherNode, TrNode(Just(Table_Headed))>>, links |-> <<>>]),
       sibling_links |-> LastOf(L)],
      \* no table at all; the links are found among the siblings and ahead
      [following |-> LinkNodes(LastOf(L)),
       parent_table |-> Nothing, sibling_links |-> L],
      \* a headed table behind 20 other tables
      [following |-> JunkTables(TableHorizon) \o <<TableNode(Table_Headed)>>,
       parent_table |-> Just([siblings |-> <<TableNode(Table_Junk)>>, links |-> L]),
       sibling_links |-> <<>>],
      \* a table whose only header cell says "SU Credits", as the 11th element
      [following |-> Pad(ProximityHorizon) \o <<TableNode(Table_Credits)>>,
       parent_table |-> Nothing, sibling_links |-> <<>>] }

Zones(L) ==
    { [name_attr |-> h.name_attr, title |-> h.title, following |-> s.following,
       parent_table |-> s.parent_table, sibling_links |-> s.sibling_links]
      : h \in Heads, s \in Surroundings(L) }

NoAnchor == [name_attr |-> <<>>, title |-> <<>>, following |-> <<>>,
             parent_table |-> Nothing, sibling_links |-> <<>>]

NoCall == [href |-> <<>>, category |-> None, pass |-> None]

\* what requests.get of a list link can answer: a page without a table or a
\* page whose first table is one of these
ListPages == {Nothing, Just(Table_Headed), Just(<<Row_CS2_01>>)}

\* what the two requests of get_course_details can answer
DetailPage == <<Elem("span", << <<"Prerequisites", ":">> >>), Br, Text(<<" ", "b", "\n">>), Br,
                Elem("span", << <<"Corequisites", ":">> >>), Br, Br>>
DetailFetches == { [term |-> Nothing, page |-> Nothing],
                   [term |-> Just(<<"2","0","2","4">>), page |-> Just(DetailPage)] }

-----------------------------------------------------------------------------
(* History of a run *)

Identity(row) == <<row.Major, row.Code>>

\* first_found after a pass has parsed new_rows: the first row of every
\* identity in processing order, with the pass that parsed it
RECURSIVE Discover(_, _, _)
Discover(known, new_rows, pass) ==
    IF new_rows = <<>> THEN known
    ELSE LET row == Head(new_rows)
         IN  Discover(IF Identity(row) \in DOMAIN known THEN known
                      ELSE [i \in DOMAIN known \cup {Identity(row)} |->
                               IF i = Identity(row) THEN [row |-> row, pass |-> pass]
                               ELSE known[i]],
                      Tail(new_rows), pass)

\* the identities of the rows of a located table, each with its category
TableFinds(rows) == {[id |-> Identity(rows[k]), el |-> rows[k].EL_Type] : k \in DOMAIN rows}

\* the origin of the records a merge has appended
Extend(origins, n, pass) == origins \o [k \in 1..(n - Len(origins)) |-> pass]

-----------------------------------------------------------------------------
(* crawl_program *)

CP_Init ==
    /\ pc = "anchor"
    /\ page_links \in PageLinkLists
    /\ n_anchors = 0
    /\ a = NoAnchor
    /\ el_type = None
    /\ links = <<>>
    /\ li = 1 /\ fi = 1 /\ di = 1
    /\ results = <<>>
    /\ seen_courses = {}
    /\ origin = <<>>
    /\ first_found = <<>>
    /\ in_tables = {}
    /\ call = NoCall

\* lines 227-233: a named anchor that opens no zone
CP_SkipAnchor ==
    /\ pc = "anchor"
    /\ n_anchors < MaxAnchors
    /\ \E name_attr \in OtherAnchors : ~IsZoneAnchor(name_attr)
    /\ n_anchors' = n_anchors + 1
    /\ UNCHANGED <<pc, page_links, a, el_type, links, li, fi, di,
                   results, seen_courses, origin, first_found, in_tables, call>>
    /\ UNCHANGED cp_others

\* lines 227-333: a zone anchor is classified, its table located, parsed and merged
CP_Zone ==
    /\ pc = "anchor"
    /\ n_anchors < MaxAnchors
    /\ \E z \in Zones(page_links) :
          /\ IsZoneAnchor(z.name_attr)
          /\ LET zone_type == ZoneCategory(z.name_attr, z.title)
                 table     == LocateTable(z.following, ParentSiblings(z))
                 new_rows  == IF table = Nothing THEN <<>>
                              ELSE parse_table(table[1], zone_type)
                 merged    == Merge([results |-> results, seen |-> seen_courses], new_rows)
             IN  /\ a' = z
                 /\ el_type' = zone_type
                 /\ results' = merged.results
                 /\ seen_courses' = merged.seen
                 /\ origin' = Extend(origin, Len(merged.results), "table")
                 /\ first_found' = Discover(first_found, new_rows, "table")
                 /\ in_tables' = in_tables \cup TableFinds(new_rows)
    /\ pc' = "collect"
    /\ n_anchors' = n_anchors + 1
    /\ UNCHANGED <<page_links, links, li, fi, di, call>>
    /\ UNCHANGED cp_others

\* lines 335-353: the expand links of the zone are collected
CP_CollectLinks ==
    /\ pc = "collect"
    /\ links' = ZoneLinks(a)
    /\ li' = 1
    /\ pc' = IF ZoneLinks(a) = <<>> THEN "anchor" ELSE "links"
    /\ a' = NoAnchor
    /\ UNCHANGED <<page_links, n_anchors, el_type, fi, di,
                   results, seen_courses, origin, first_found, in_tables, call>>
    /\ UNCHANGED cp_others

\* lines 355-383: an expand link whose page is fetched
CP_ExpandLink ==
    /\ pc = "links"
    /\ li <= Len(links)
    /\ \E page \in ListPages :
          LET category == LinkElType(el_type, links[li])
              new_rows == crawl_list(page, category)
              merged   == Merge([results |-> results, seen |-> seen_courses], new_rows)
          IN  /\ el_type' = category
              /\ call' = [href |-> links[li], category |-> category, pass |-> "expand"]
              /\ results' = merged.results
              /\ seen_courses' = merged.seen
              /\ origin' = Extend(origin, Len(merged.results), "expand")
              /\ first_found' = Discover(first_found, new_rows, "expand")
    /\ li' = li + 1
    /\ pc' = IF li = Len(links) THEN "anchor" ELSE "links"
    /\ UNCHANGED <<page_links, n_anchors, a, links, fi, di, in_tables>>
    /\ UNCHANGED cp_others

\* lines 355-378 and 210-211: the request of an expand link fails; neither
\* crawl_list nor crawl_program catches the exception
CP_ExpandLinkRaises ==
    /\ pc = "links"
    /\ li <= Len(links)
    /\ el_type' = LinkElType(el_type, links[li])
    /\ call' = [href |-> links[li], category |-> LinkElType(el_type, links[li]), pass |-> "expand"]
    /\ pc' = "raised"
    /\ UNCHANGED <<page_links, n_anchors, a, links, li, fi, di,
                   results, seen_courses, origin, first_found, in_tables>>
    /\ UNCHANGED cp_others

\* line 227: the page has no further named anchor
CP_AnchorsEnd ==
    /\ pc = "anchor"
    /\ pc' = "fallback"
    /\ UNCHANGED <<page_links, n_anchors, a, el_type, links, li, fi, di,
                   results, seen_courses, origin, first_found, in_tables, call>>
    /\ UNCHANGED cp_others

\* lines 387-389: a list link without area code is passed over
CP_FallbackSkip ==
    /\ pc = "fallback"
    /\ fi <= Len(page_links)
    /\ ~HasArea(page_links[fi])
    /\ fi' = fi + 1
    /\ UNCHANGED <<pc, page_links, n_anchors, a, el_type, links, li, di,
                   results, seen_courses, origin, first_found, in_tables, call>>
    /\ UNCHANGED cp_others

\* lines 387-414: a list link of the sweep whose page is fetched
CP_FallbackLink ==
    /\ pc = "fallback"
    /\ fi <= Len(page_links)
    /\ HasArea(page_links[fi])
    /\ \E page \in ListPages :
          LET category == FallbackLinkCategory(AreaCode(page_links[fi]))
              new_rows == crawl_list(page, category)
              merged   == Merge([results |-> results, seen |-> seen_courses], new_rows)
          IN  /\ el_type' = category
              /\ call' = [href |-> page_links[fi], category |-> category, pass |-> "fallback"]
              /\ results' = merged.results
              /\ seen_courses' = merged.seen
              /\ origin' = Extend(origin, Len(merged.results), "fallback")
              /\ first_found' = Discover(first_found, new_rows, "fallback")
    /\ fi' = fi + 1
    /\ UNCHANGED <<pc, page_links, n_anchors, a, links, li, di, in_tables>>
    /\ UNCHANGED cp_others

\* lines 387-409 and 210-211: the request of a link of the sweep fails
CP_FallbackRaises ==
    /\ pc = "fallback"
    /\ fi <= Len(page_links)
    /\ HasArea(page_links[fi])
    /\ el_type' = FallbackLinkCategory(AreaCode(page_links[fi]))
    /\ call' = [href |-> page_links[fi],
                category |-> FallbackLinkCategory(AreaCode(page_links[fi])),
                pass |-> "fallback"]
    /\ pc' = "raised"
    /\ UNCHANGED <<page_links, n_anchors, a, links, li, fi, di,
                   results, seen_courses, origin, first_found, in_tables>>
    /\ UNCHANGED cp_others

\* line 387: the sweep has visited every list link
CP_FallbackEnd ==
    /\ pc = "fallback"
    /\ fi > Len(page_links)
    /\ pc' = "details"
    /\ UNCHANGED <<page_links, n_anchors, a, el_type, links, li, fi, di,
                   results, seen_courses, origin, first_found, in_tables, call>>
    /\ UNCHANGED cp_others

\* lines 417-424: the details loop over the rows, then the return; fetched[k]
\* is what the two requests for results[k] answer
CP_DetailsReturn ==
    /\ pc = "details"
    /\ \E fetched \in [DOMAIN results -> DetailFetches] :
          results' = [k \in DOMAIN results |->
                         IF WantsDetails(results[k])
                         THEN Update(results[k], get_course_details(fetched[k]))
                         ELSE results[k]]
    /\ pc' = "done"
    /\ UNCHANGED <<page_links, n_anchors, a, el_type, links, li, fi, di,
                   seen_courses, origin, first_found, in_tables, call>>
    /\ UNCHANGED cp_others

-----------------------------------------------------------------------------
(* Specifications: one per function, the other functions' frames idle *)

PT_Idle ==
    /\ pt_pc = "idle" /\ pt_table = <<>> /\ pt_category = None
    /\ pt_header = FALSE /\ pt_i = 0 /\ pt_rows = <<>>

EX_Idle ==
    /\ ex_pc = "idle" /\ ex_page = <<>> /\ ex_label = None /\ ex_span = 0
    /\ ex_k = 0 /\ ex_started = FALSE /\ ex_parts = <<>> /\ ex_result = <<>>

CP_Idle ==
    /\ pc = "idle" /\ page_links = <<>> /\ n_anchors = 0 /\ a = NoAnchor
    /\ el_type = None /\ links = <<>> /\ li = 1 /\ fi = 1 /\ di = 1
    /\ results = <<>> /\ seen_courses = {} /\ origin = <<>> /\ first_found = <<>>
    /\ in_tables = {} /\ call = NoCall

InitParse == PT_Init /\ EX_Idle /\ CP_Idle
NextParse == PT_Begin \/ PT_Row \/ PT_Return
SpecParse == InitParse /\ [][NextParse]_vars

InitExtract == EX_Init /\ PT_Idle /\ CP_Idle
NextExtract == EX_Find \/ EX_Sibling \/ EX_Return
SpecExtract == InitExtract /\ [][NextExtract]_vars

Init == CP_Init /\ PT_Idle /\ EX_Idle
Next ==
    \/ CP_SkipAnchor \/ CP_Zone \/ CP_CollectLinks \/ CP_ExpandLink \/ CP_ExpandLinkRaises \/ CP_AnchorsEnd
    \/ CP_FallbackSkip \/ CP_FallbackLink \/ CP_FallbackRaises \/ CP_FallbackEnd
    \/ CP_DetailsReturn
Spec == Init /\ [][Next]_vars

-----------------------------------------------------------------------------
(* Claims about the extraction merger *)

\* a record without the fields the details loop adds
BaseFields == {"Major", "Code", "Course_Name", "ECTS", "Engineering", "Basic_Science",
               "SU_credit", "Faculty", "EL_Type", "Faculty_Course"}
Base(row) == [f \in BaseFields |-> row[f]]

\* C1: after every merge step the record list holds at most one record per
\* CourseIdentity (major, code).
C1_OneRecordPerIdentity ==
    \A i, j \in DOMAIN results :
        i # j => Identity(results[i]) # Identity(results[j])

\* the run has ended, sweep included, with several records, and an identity
\* first parsed from an expand link was parsed again from a zone's table
C1_Witness ==
    /\ pc = "done"
    /\ Len(results) >= 2
    /\ call.pass = "fallback"
    /\ \E t \in in_tables : first_found[t.id].pass = "expand"

\* C2 as stated: the three passes run one after the other, so the surviving
\* record of an identity that appears in the located table of any zone carries
\* a category that a table pass assigned to it.
C2_TableCategorySurvives ==
    \A k \in DOMAIN results :
        (\E t \in in_tables : t.id = Identity(results[k]))
            => \E t \in in_tables : t.id = Identity(results[k]) /\ t.el = results[k].EL_Type

\* C2 as amended: the zones are processed one after the other, each zone's
\* table before that zone's expand links, and the fallback sweep after all
\* zones; the surviving record of an identity is the first row parsed with
\* that identity in this order, so no row of the sweep stands before or in
\* place of a row of a zone.
C2_FirstDiscoverySurvives ==
    /\ \A k \in DOMAIN results :
          /\ Identity(results[k]) \in DOMAIN first_found
          /\ first_found[Identity(results[k])].row = Base(results[k])
          /\ first_found[Identity(results[k])].pass = origin[k]
    /\ \A i, j \in DOMAIN results :
          (i < j /\ origin[i] = "fallback") => origin[j] = "fallback"

\* an expand link of an earlier zone gave the surviving record of an identity
\* that a later zone's table holds under another category
C2_Witness ==
    /\ pc = "done"
    /\ \E k \in DOMAIN results :
          /\ origin[k] = "expand"
          /\ \E t \in in_tables : t.id = Identity(results[k])
          /\ \A t \in in_tables : t.id = Identity(results[k]) => t.el # results[k].EL_Type

\* C5: a failed request of an expand link or of a link of the sweep is
\* absorbed at that link, and crawl_program still returns a record list
\* instead of ending with an error.
C5_FetchFailureAbsorbed == pc # "raised"

\* C6: the category an expand link's rows are parsed under is derived from
\* the link's own target alone: the same target gets the same category,
\* whatever the enclosing zone and the links before it.
C6_CategoryFromTargetAlone ==
    [][(call.pass = "expand" /\ call'.pass = "expand" /\ call'.href = call.href)
          => call'.category = call.category]_vars

\* rule set (1) of the classifier, first match wins
RuleSetOne(area_code) ==
    IF \E m \in {"_CEL", "_COR", "_CE1", "_C1"} : Contains(area_code, m) THEN "core"
    ELSE IF \E m \in {"_CE2", "_PHL", "_MEL", "_C2"} : Contains(area_code, m) THEN "extra_attribute"
    ELSE IF Contains(area_code, "_REQ") THEN "required"
    ELSE IF \E m \in {"_AEL", "_ARE"} : Contains(area_code, m) THEN "area"
    ELSE IF \E m \in {"_FEL", "_FRE"} : Contains(area_code, m) THEN "free"
    ELSE IF Contains(area_code, "UC_") THEN "university"
    ELSE "unknown"

\* C7: for every link area code, the expand-link pass and the fallback sweep
\* both assign the category of rule set (1).
C7_BothPassesRuleSetOne ==
    (call.pass \in {"expand", "fallback"} /\ HasArea(call.href))
        => call.category = RuleSetOne(AreaCode(call.href))

\* C8: a parsed row whose (major, code) pair differs from the pair of every
\* record accumulated so far is added, so every identity a pass has parsed
\* has its record.
C8_NewPairAdded ==
    \A id \in DOMAIN first_found :
        \E k \in DOMAIN results : Identity(results[k]) = id

\* none of the three locator strategies accepts a table for the anchor
NoStrategyFinds(anchor) ==
    /\ LocateNear(anchor.following) = Nothing
    /\ LocateSibling(ParentSiblings(anchor)) = Nothing
    /\ LocateFar(anchor.following) = Nothing

\* C9: a zone for which no locator strategy finds a table adds no record and
\* raises no error: the record set is unchanged and processing goes on with
\* the zone's expand links, then with the remaining anchors.
C9_NoTableNoRecords ==
    [][/\ (pc = "anchor" /\ a' # NoAnchor /\ NoStrategyFinds(a'))
            => (results' = results /\ seen_courses' = seen_courses /\ pc' = "collect")
       /\ (pc = "collect" /\ pc' # "collect" /\ NoStrategyFinds(a))
            => (results' = results /\ pc' \in {"links", "anchor"} /\ links' = ZoneLinks(a))]_vars

\* a zone without a table has kept the records of an earlier zone and has
\* expand links to go on with
C9_Witness ==
    /\ pc = "collect"
    /\ NoStrategyFinds(a)
    /\ results # <<>>
    /\ ZoneLinks(a) # <<>>
    /\ \E n \in DOMAIN a.following : a.following[n].name = "table"

-----------------------------------------------------------------------------
(* Claims about the text extractor *)

\* the siblings of the label are: text, break, text, break, then anything
LabelShape ==
    /\ ex_span > 0
    /\ Len(ex_page) >= ex_span + 4
    /\ ex_page[ex_span + 1].kind = "text"
    /\ ex_page[ex_span + 2].kind = "br"
    /\ ex_page[ex_span + 3].kind = "text"
    /\ ex_page[ex_span + 4].kind = "br"

Value1 == Strip(ex_page[ex_span + 1].strings[1])
Value2 == Strip(ex_page[ex_span + 3].strings[1])

\* C4 as stated: for the siblings value1, break, value2, break, trailing the
\* extractor returns exactly "value1".
C4_ReturnsValue1 ==
    (ex_pc = "done" /\ LabelShape) => ex_result = Value1

\* C4 as amended: for the siblings value1, break, value2, break, trailing the
\* extractor returns the trimmed value1 and value2 joined by one space (only
\* the non-empty ones), whatever the trailing content is.
C4_ReturnsBothValues ==
    (ex_pc = "done" /\ LabelShape) =>
        ex_result = IF Value1 = <<>> THEN Value2
                    ELSE IF Value2 = <<>> THEN Value1
                    ELSE Value1 \o <<" ">> \o Value2

\* both values are visible and visible trailing content follows the second break
C4_Witness ==
    /\ ex_pc = "done" /\ LabelShape
    /\ Value1 # <<>> /\ Value2 # <<>>
    /\ Len(ex_page) > ex_span + 4
    /\ Contribution(ex_page[ex_span + 5]) # <<>>
    /\ ex_result = <<"b", " ", "b">>

\* the positions of the label marker's following siblings, and of the line
\* breaks among them
SiblingsOf == (ex_span + 1)..Len(ex_page)
Breaks == {i \in SiblingsOf : ex_page[i].kind = "br"}
FirstBreak ==
    IF Breaks = {} THEN Len(ex_page) + 1 ELSE SetMin(Breaks)
SecondBreak ==
    IF Cardinality(Breaks) < 2 THEN Len(ex_page) + 1
    ELSE SetMin(Breaks \ {FirstBreak})

\* the trimmed text of a text or element sibling
Trimmed(sib) ==
    IF sib.kind = "text" THEN Strip(sib.strings[1])
    ELSE LET shown == SelectSeq([k \in DOMAIN sib.strings |-> Strip(sib.strings[k])],
                                LAMBDA t : t # <<>>)
             glue[k \in 0..Len(shown)] ==
                 IF k = 0 THEN <<>>
                 ELSE IF k = 1 THEN shown[1]
                 ELSE glue[k - 1] \o <<" ">> \o shown[k]
         IN  glue[Len(shown)]

\* the trimmed contributions of the text and element siblings at the
\* positions from..to, in document order
RECURSIVE TrimmedBetween(_, _)
TrimmedBetween(from, to) ==
    IF from > to THEN <<>>
    ELSE IF ex_page[from].kind = "br" THEN TrimmedBetween(from + 1, to)
    ELSE <<Trimmed(ex_page[from])>> \o TrimmedBetween(from + 1, to)

\* the non-empty ones of a list of texts, joined by single spaces
SingleSpaceJoin(texts) ==
    LET shown == SelectSeq(texts, LAMBDA t : t # <<>>)
        glue[k \in 0..Len(shown)] ==
            IF k = 0 THEN <<>>
            ELSE IF k = 1 THEN shown[1]
            ELSE glue[k - 1] \o <<" ">> \o shown[k]
    IN  glue[Len(shown)]

\* no span of the page has a string that contains the label
NoMarker ==
    \A i \in DOMAIN ex_page :
        ~(/\ ex_page[i].kind = "elem" /\ ex_page[i].name = "span"
          /\ Len(ex_page[i].strings) = 1
          /\ \E j \in DOMAIN ex_page[i].strings[1] : ex_page[i].strings[1][j] = ex_label)

\* while the scan runs, and after it: 'started' says whether the first break
\* is behind the scan, the scan is never past the second break, and parts
\* holds the trimmed contributions of exactly the siblings passed so far
ScanState ==
    (ex_pc \in {"scan", "done"} /\ ex_span > 0) =>
        /\ ex_started = (FirstBreak < ex_k)
        /\ ex_k <= SecondBreak
        /\ ex_parts = TrimmedBetween(ex_span + 1, ex_k - 1)

\* the returned text
ScanResult ==
    ex_pc = "done" =>
        /\ (ex_span = 0) = NoMarker
        /\ ex_span = 0 => ex_result = <<>>
        /\ ex_span > 0 =>
            /\ ex_k = SecondBreak
            /\ ex_result = SingleSpaceJoin(TrimmedBetween(ex_span + 1, SecondBreak - 1))

\* one step of the scan at a line break: the first one only sets 'started',
\* the second one ends the scan
BreakStep ==
    (ex_pc = "scan" /\ ex_k <= Len(ex_page) /\ ex_page[ex_k].kind = "br") =>
        IF ex_started
        THEN ex_pc' = "done" /\ ex_parts' = ex_parts
        ELSE ex_pc' = "scan" /\ ex_started' /\ ex_parts' = ex_parts /\ ex_k' = ex_k + 1

\* C11: _extract_detail_text is a two-state scan over the label marker's
\* following siblings.  The first line break is skipped and sets 'started',
\* the second one ends the scan; the result is the single-space join of the
\* trimmed, non-empty contributions of all text and element siblings before
\* the second break, no sibling at or after the second break contributes, and
\* the result is empty when no marker contains the label.
C11_TwoStateScan ==
    /\ [](ScanState /\ ScanResult)
    /\ [][BreakStep]_ex_vars

\* a call that passed both breaks: a text and an element before the second
\* break contributed, a visible text after it did not
C11_Witness ==
    /\ ex_pc = "done" /\ ex_span > 0
    /\ Cardinality(Breaks) >= 2
    /\ \E i \in (ex_span + 1)..(SecondBreak - 1) :
          ex_page[i].kind = "text" /\ Trimmed(ex_page[i]) # <<>>
    /\ \E i \in (ex_span + 1)..(SecondBreak - 1) :
          ex_page[i].kind = "elem" /\ Trimmed(ex_page[i]) # <<>>
    /\ \E i \in (SecondBreak + 1)..Len(ex_page) :
          ex_page[i].kind = "text" /\ Trimmed(ex_page[i]) # <<>>
    /\ ex_result = <<"b", " ", "c", " ", "d">>

-----------------------------------------------------------------------------
(* Claims about the row parser *)

NotSpace(c) == c \notin Whitespace

\* the row carries the centered asterisk, in either padding
Marked(tr) == Contains(tr.html0, StarNbsp) \/ Contains(tr.html0, StarSpace)

KnownFacultyCourse(major, code) ==
    (major \o code) \in (FENS_COURSES \cup FASS_COURSES \cup SBS_COURSES)

\* the row the loop visited last, once it has visited one
LastVisited == pt_table[pt_i - 1]
HasVisited == pt_pc = "loop" /\ pt_i > (IF pt_header THEN 2 ELSE 1)

\* C3: a record's EL_Type is "core" when its row carries the asterisk, its
\* (major, code) is a known faculty course and the zone category is
\* "required"; in every other case (area and free included) it is the zone
\* category passed in.
C3_OverrideRule ==
    (HasVisited /\ RowAccepted(LastVisited)) =>
        LET r == pt_rows[Len(pt_rows)]
        IN  r.EL_Type =
              IF Marked(LastVisited) /\ KnownFacultyCourse(r.Major, r.Code)
                                      /\ pt_category = "required"
              THEN "core" ELSE pt_category

\* a marked faculty row was reclassified in a required zone
C3_Witness ==
    /\ HasVisited /\ RowAccepted(LastVisited) /\ Marked(LastVisited)
    /\ pt_rows[Len(pt_rows)].Faculty_Course = "FENS"
    /\ pt_category = "required"
    /\ pt_rows[Len(pt_rows)].EL_Type = "core"

\* first whitespace-separated token of a text with a visible character
FirstToken(text) ==
    LET from == SetMin({i \in DOMAIN text : NotSpace(text[i])})
        ends == {j \in from..Len(text) : ~NotSpace(text[j])}
        b    == IF ends = {} THEN Len(text) + 1 ELSE SetMin(ends)
    IN  SubSeq(text, from, b - 1)

\* the visible characters after the first token
AfterFirstToken(text) ==
    LET from == SetMin({i \in DOMAIN text : NotSpace(text[i])})
        ends == {j \in from..Len(text) : ~NotSpace(text[j])}
        b    == IF ends = {} THEN Len(text) + 1 ELSE SetMin(ends)
    IN  SelectSeq(SubSeq(text, b, Len(text)), NotSpace)

\* indices of the rows that must yield a record
Emitting(table) ==
    {i \in DOMAIN table :
        /\ i > (IF table[1].th # <<>> THEN 1 ELSE 0)
        /\ Len(table[i].td) >= 5
        /\ \E k \in DOMAIN table[i].td[2] : NotSpace(table[i].td[2][k])}

KthOf(S, k) == CHOOSE x \in S : Cardinality({y \in S : y < x}) = k - 1

\* C10: parse_table returns, in row order, one record per data row with at
\* least 5 cells and a non-empty identity cell and nothing for any other row;
\* the first row is skipped iff it has header cells; major is the first
\* whitespace-separated token of the identity cell and code the remaining
\* tokens concatenated.
C10_RowsEmitted ==
    pt_pc = "done" =>
        /\ Len(pt_rows) = Cardinality(Emitting(pt_table))
        /\ \A k \in DOMAIN pt_rows :
              LET id == pt_table[KthOf(Emitting(pt_table), k)].td[2]
              IN  /\ pt_rows[k].Major = FirstToken(id)
                  /\ pt_rows[k].Code = AfterFirstToken(id)

\* a header row was skipped and the row after it gave a three-token identity
C10_Witness ==
    /\ pt_pc = "done"
    /\ Len(pt_table) = 2 /\ pt_header
    /\ Len(pt_table[2].td) >= 5 /\ pt_table[2].td[2] = Id_Padded
    /\ Len(pt_rows) = 1
    /\ pt_rows[1].Major = <<"C","S">> /\ pt_rows[1].Code = <<"2","0","1">>
====
